---------------------------- MODULE Spec2Model ----------------------------
(***************************************************************************)
(* Model of package basic (github.com/lauslim12/basic): the BasicAuth      *)
(* configuration, its two constructors, the default authenticator,         *)
(* CompareInputs and the Authenticate middleware, with two requests        *)
(* handled concurrently against one configuration.                         *)
(*                                                                         *)
(* Strings that carry credentials are modelled as their byte sequences     *)
(* ([]byte(s)); Realm and Charset are TLA+ strings.  A nil map and an      *)
(* empty map are both the empty function: Go's len and index treat them    *)
(* alike.                                                                  *)
(***************************************************************************)
EXTENDS Naturals, Sequences, FiniteSets, TLC

\* ---------------------------------------------------------------- bounds
\* Largest number of entries of a static users table.
MaxUsers == 1

\* sha256.Size: the length in bytes of a SHA-256 digest.
Size == 32

\* http.StatusUnauthorized and http.StatusOK.
StatusUnauthorized == 401
StatusOK == 200

\* ---------------------------------------------------------------- values
\* Byte strings the static users table may hold as keys and as values.
StoredStrs == {<<1>>, <<2, 1>>}

\* Byte strings a request may carry as username and as password.
Usernames == StoredStrs \cup {<<2>>}
Passwords == StoredStrs

\* map[string]string values with at most MaxUsers entries.
UserTables ==
    UNION {[D -> StoredStrs] : D \in {E \in SUBSET StoredStrs : Cardinality(E) <= MaxUsers}}

\* Authorization header values.  kind "basic" is a well-formed
\* "Basic base64(username:password)"; the others are the ways the header can
\* fail to be one.
HeaderOf(kind, u, p) == [kind |-> kind, username |-> u, password |-> p]
Headers ==
    {HeaderOf(k, <<>>, <<>>) : k \in {"absent", "wrongscheme", "malformed"}}
        \cup {HeaderOf("basic", u, p) : u \in Usernames, p \in Passwords}

\* ------------------------------------------------------- http.Handler values
HandlerOf(name, msg, code) == [name |-> name, status |-> StatusUnauthorized, msg |-> msg, code |-> code]

\* The two default rejection handlers of NewDefaultBasicAuth.
DefaultInvalidCredentialsResponse ==
    HandlerOf("DefaultInvalidCredentialsResponse", "Invalid username and/or password!", "")
DefaultInvalidSchemeResponse ==
    HandlerOf("DefaultInvalidSchemeResponse", "Invalid authentication scheme!", "")

\* The two handlers the example application passes to NewCustomBasicAuth.
ExampleSchemeFailure ==
    HandlerOf("ExampleSchemeFailure", "Invalid authentication scheme!", "BAUTH: E0001")
ExampleCredentialsFailure ==
    HandlerOf("ExampleCredentialsFailure", "Invalid username and/or password!", "BAUTH: E0002")

\* The wrapped handler: the tests' next writes 200.
NextHandler == [name |-> "next", status |-> StatusOK, msg |-> "", code |-> ""]

\* A nil http.Handler, and the response of a request no handler has answered.
NilHandler == [name |-> "nil", status |-> 0, msg |-> "", code |-> ""]
NoResponse == [name |-> "", status |-> 0, msg |-> "", code |-> ""]

\* ------------------------------------------------------------ CompareInputs
RECURSIVE BitXor(_, _)
BitXor(a, b) ==
    IF a = 0 THEN b
    ELSE IF b = 0 THEN a
    ELSE (((a % 2) + (b % 2)) % 2) + 2 * BitXor(a \div 2, b \div 2)

RECURSIVE BitOr(_, _)
BitOr(a, b) ==
    IF a = 0 THEN b
    ELSE IF b = 0 THEN a
    ELSE (IF (a % 2) + (b % 2) > 0 THEN 1 ELSE 0) + 2 * BitOr(a \div 2, b \div 2)

\* sha256.Sum256 abstracted to what CompareInputs relies on: a digest of Size
\* bytes whatever the input's length, and no collision among the inputs of
\* the model (byte 1 holds the length, the next bytes the input, the rest 0).
Sum256(s) ==
    [i \in 1..Size |-> IF i = 1 THEN Len(s) ELSE IF i - 1 <= Len(s) THEN s[i - 1] ELSE 0]

\* The loop of subtle.ConstantTimeCompare: v |= x[i] ^ y[i] for every i.
RECURSIVE CTLoop(_, _, _, _)
CTLoop(x, y, i, v) ==
    IF i > Len(x) THEN v ELSE CTLoop(x, y, i + 1, BitOr(v, BitXor(x[i], y[i])))

\* subtle.ConstantTimeCompare(x, y): result is 1 or 0; ops counts the loop's
\* iterations (0 when the lengths differ and it returns at once).
ConstantTimeCompare(x, y) ==
    IF Len(x) # Len(y)
    THEN [result |-> 0, ops |-> 0]
    ELSE [result |-> IF CTLoop(x, y, 1, 0) = 0 THEN 1 ELSE 0, ops |-> Len(x)]

\* A comparison that returns at the first differing byte.
EarlyExitCompare(x, y) ==
    LET n == IF Len(x) < Len(y) THEN Len(x) ELSE Len(y)
        diff == {i \in 1..n : x[i] # y[i]}
        first == IF diff = {} THEN n ELSE CHOOSE i \in diff : \A j \in diff : i <= j
    IN  [result |-> IF x = y THEN 1 ELSE 0, ops |-> first]

\* CompareInputs on the raw inputs, with a comparison that stops early.
CompareInputsRunRaw(input, expected) ==
    LET cmp == EarlyExitCompare(input, expected)
    IN  [input |-> input, expected |-> expected,
         lens |-> <<Len(input), Len(expected)>>,
         ops |-> cmp.ops, result |-> cmp.result = 1]

\* One run of CompareInputs: what it compared (lens: the lengths of the two
\* byte strings handed to the comparison), the comparison's number of
\* operations, and the boolean it returns.
CompareInputsRun(input, expected) ==
    LET inputHash == Sum256(input)
        expectedHash == Sum256(expected)
        cmp == ConstantTimeCompare(inputHash, expectedHash)
    IN  [input |-> input, expected |-> expected,
         lens |-> <<Len(inputHash), Len(expectedHash)>>,
         ops |-> cmp.ops, result |-> cmp.result = 1]

CompareInputs(input, expected) == CompareInputsRun(input, expected).result

\* ------------------------------------------------------------ authenticators
\* func(username, password string) bool values: nil, the closure
\* NewDefaultBasicAuth builds over its users argument, and a caller's own.
NilAuthenticator == [kind |-> "nil", users |-> <<>>]
DefaultAuthenticatorOf(users) == [kind |-> "default", users |-> users]
CustomAuthenticator == [kind |-> "custom", users |-> <<>>]

\* The credential store behind the caller's own authenticator.
DBUsers == (<<2>> :> <<2, 1>>) @@ (<<1>> :> <<1, 2>>)

\* The default authenticator with the two comparisons joined by "or".
DefaultAuthenticatorRunEither(users, username, password) ==
    IF Cardinality(DOMAIN users) # 0 /\ username \in DOMAIN users
    THEN LET val == users[username]
             usernamesMatch == CompareInputsRun(username, users[username])
             passwordsMatch == CompareInputsRun(password, val)
         IN  [result |-> usernamesMatch.result \/ passwordsMatch.result,
              cmps |-> <<usernamesMatch, passwordsMatch>>]
    ELSE [result |-> FALSE, cmps |-> <<>>]

\* One call of the default Authenticator closure: its boolean result and the
\* CompareInputs runs it made.
DefaultAuthenticatorRun(users, username, password) ==
    IF Cardinality(DOMAIN users) # 0 /\ username \in DOMAIN users
    THEN LET val == users[username]
             usernamesMatch == CompareInputsRun(username, users[username])
             passwordsMatch == CompareInputsRun(password, val)
         IN  [result |-> usernamesMatch.result /\ passwordsMatch.result,
              cmps |-> <<usernamesMatch, passwordsMatch>>]
    ELSE [result |-> FALSE, cmps |-> <<>>]

\* One call of the caller's own authenticator: look the user up in its
\* store, then CompareInputs(password, user.Password).
CustomAuthenticatorRun(username, password) ==
    IF username \in DOMAIN DBUsers
    THEN LET match == CompareInputsRun(password, DBUsers[username])
         IN  [result |-> match.result, cmps |-> <<match>>]
    ELSE [result |-> FALSE, cmps |-> <<>>]

\* a.Authenticator(username, password)
AuthenticatorRun(authenticator, username, password) ==
    IF authenticator.kind = "default"
    THEN DefaultAuthenticatorRun(authenticator.users, username, password)
    ELSE CustomAuthenticatorRun(username, password)

\* -------------------------------------------------------------- constructors
BasicAuth(authenticator, charset, invalidCredentialsResponse, invalidSchemeResponse, realm, users) ==
    [Authenticator |-> authenticator,
     Charset |-> charset,
     InvalidCredentialsResponse |-> invalidCredentialsResponse,
     InvalidSchemeResponse |-> invalidSchemeResponse,
     Realm |-> realm,
     Users |-> users]

NewDefaultBasicAuth(users) ==
    BasicAuth(DefaultAuthenticatorOf(users), "UTF-8", DefaultInvalidCredentialsResponse,
              DefaultInvalidSchemeResponse, "", users)

\* NewCustomBasicAuth without the nil check of invalidSchemeResponse.
NewCustomBasicAuthNoSchemeDefault(authenticator, charset, invalidCredentialsResponse, invalidSchemeResponse, realm, users) ==
    LET defaultConfig == NewDefaultBasicAuth(users)
    IN  BasicAuth(
            IF authenticator = NilAuthenticator THEN defaultConfig.Authenticator ELSE authenticator,
            charset,
            IF invalidCredentialsResponse = NilHandler
                THEN defaultConfig.InvalidCredentialsResponse ELSE invalidCredentialsResponse,
            invalidSchemeResponse,
            realm,
            IF Cardinality(DOMAIN users) = 0 THEN defaultConfig.Users ELSE users)

NewCustomBasicAuth(authenticator, charset, invalidCredentialsResponse, invalidSchemeResponse, realm, users) ==
    LET defaultConfig == NewDefaultBasicAuth(users)
    IN  BasicAuth(
            IF authenticator = NilAuthenticator THEN defaultConfig.Authenticator ELSE authenticator,
            charset,
            IF invalidCredentialsResponse = NilHandler
                THEN defaultConfig.InvalidCredentialsResponse ELSE invalidCredentialsResponse,
            IF invalidSchemeResponse = NilHandler
                THEN defaultConfig.InvalidSchemeResponse ELSE invalidSchemeResponse,
            realm,
            IF Cardinality(DOMAIN users) = 0 THEN defaultConfig.Users ELSE users)

\* A constructor call: which constructor, and its arguments.
CallOf(ctor, authenticator, charset, invalidCredentialsResponse, invalidSchemeResponse, realm, users) ==
    [ctor |-> ctor, authenticator |-> authenticator, charset |-> charset,
     invalidCredentialsResponse |-> invalidCredentialsResponse,
     invalidSchemeResponse |-> invalidSchemeResponse, realm |-> realm, users |-> users]

\* The users of the example application: one user whose password is the
\* username.
ExampleUsers == (<<1>> :> <<1>>)

\* The call that builds the configuration of the example's /complex route,
\* its handlers in the argument positions the example passes them in.
ExampleComplexCall ==
    CallOf("NewCustomBasicAuth", NilAuthenticator, "UTF-8", ExampleSchemeFailure,
           ExampleCredentialsFailure, "Secret", ExampleUsers)

Calls ==
    {ExampleComplexCall} \cup
    {CallOf("NewDefaultBasicAuth", NilAuthenticator, "", NilHandler, NilHandler, "", u) : u \in UserTables}
        \cup {CallOf("NewCustomBasicAuth", a, c, hc, hs, rl, u) :
                a \in {NilAuthenticator, CustomAuthenticator}, c \in {"", "UTF-8"},
                hc \in {NilHandler, ExampleSchemeFailure},
                hs \in {NilHandler, ExampleCredentialsFailure}, rl \in {"", "Test"}, u \in UserTables}

\* The configuration a constructor call returns.
Construct(c) ==
    IF c.ctor = "NewDefaultBasicAuth"
    THEN NewDefaultBasicAuth(c.users)
    ELSE NewCustomBasicAuth(c.authenticator, c.charset, c.invalidCredentialsResponse,
                            c.invalidSchemeResponse, c.realm, c.users)

\* ------------------------------------------------------------------ requests
\* The requests handled concurrently.
Reqs == {"r1", "r2"}

VARIABLES
    call,   \* the constructor call that built the configuration
    cfg,    \* the *BasicAuth every handler returned by Authenticate shares
    req     \* per request: its header, its position in the handler, its response

vars == <<call, cfg, req>>

\* A request entering the handler Authenticate returned.
NewRequest(hdr) ==
    [hdr |-> hdr, pc |-> "BasicAuth", username |-> <<>>, password |-> <<>>, ok |-> FALSE,
     authenticated |-> FALSE, www |-> "", calls |-> <<>>, args |-> <<>>, cmps |-> <<>>,
     resp |-> NoResponse]

\* r.BasicAuth(): the decoded credentials and whether the header held any.
ParseBasicAuth(hdr) ==
    IF hdr.kind = "basic"
    THEN [username |-> hdr.username, password |-> hdr.password, ok |-> TRUE]
    ELSE [username |-> <<>>, password |-> <<>>, ok |-> FALSE]

\* username, password, ok := r.BasicAuth(); if !ok { ... }
ExtractStep(rq) ==
    LET got == ParseBasicAuth(rq.hdr)
    IN  [rq EXCEPT !.username = got.username, !.password = got.password, !.ok = got.ok,
                   !.pc = IF got.ok THEN "Authenticator" ELSE "SendInvalidSchemeResponse"]

\* The dispatch on the authenticator's result with the return after the
\* rejection left out: a rejected request goes on to next.
DispatchFallThrough(authenticated) == "Next"

\* if !authenticated { a.SendInvalidCredentialsResponse(w, r); return }; next...
Dispatch(authenticated) ==
    IF authenticated THEN "Next" ELSE "SendInvalidCredentialsResponse"

\* The call of the authenticator with one reattempt after a refusal.
AuthenticatorStepRetry(a, rq) ==
    IF a.Authenticator = NilAuthenticator
    THEN [rq EXCEPT !.pc = "panic"]
    ELSE LET run == AuthenticatorRun(a.Authenticator, rq.username, rq.password)
             n == IF run.result THEN 1 ELSE 2
         IN  [rq EXCEPT !.authenticated = run.result,
                        !.calls = @ \o [i \in 1..n |-> "Authenticator"],
                        !.args = @ \o [i \in 1..n |-> <<rq.username, rq.password>>],
                        !.cmps = @ \o run.cmps,
                        !.pc = Dispatch(run.result)]

\* authenticated := a.Authenticator(username, password)
AuthenticatorStep(a, rq) ==
    IF a.Authenticator = NilAuthenticator
    THEN [rq EXCEPT !.pc = "panic"]
    ELSE LET run == AuthenticatorRun(a.Authenticator, rq.username, rq.password)
         IN  [rq EXCEPT !.authenticated = run.result,
                        !.calls = Append(@, "Authenticator"),
                        !.args = Append(@, <<rq.username, rq.password>>),
                        !.cmps = @ \o run.cmps,
                        !.pc = Dispatch(run.result)]

\* fmt.Sprintf(`Basic realm="%s", charset="%s"`, a.Realm, a.Charset)
Challenge(realm, charset) ==
    "Basic realm=\"" \o realm \o "\", charset=\"" \o charset \o "\""

\* The header SetWWWAuthenticate leaves when it tests "or" instead of "and".
WWWAuthenticateEither(a, www) ==
    IF a.Realm # "" \/ a.Charset # "" THEN Challenge(a.Realm, a.Charset) ELSE www

\* The WWW-Authenticate header after a.SetWWWAuthenticate(w), www before it.
WWWAuthenticate(a, www) ==
    IF a.Realm # "" /\ a.Charset # "" THEN Challenge(a.Realm, a.Charset) ELSE www

\* Send...Response with its two statements swapped: the rejection handler
\* is invoked first and SetWWWAuthenticate is called after it.
SetWWWAuthenticateStepAfterHandler(a, rq) ==
    LET h == IF rq.pc = "SendInvalidSchemeResponse"
             THEN a.InvalidSchemeResponse ELSE a.InvalidCredentialsResponse
    IN  [rq EXCEPT !.resp = h,
                   !.calls = @ \o <<h.name, "SetWWWAuthenticate">>,
                   !.www = WWWAuthenticate(a, @),
                   !.pc = "done"]

\* a.SetWWWAuthenticate(w), the first statement of both Send...Response.
SetWWWAuthenticateStep(a, rq) ==
    [rq EXCEPT !.www = WWWAuthenticate(a, @),
               !.calls = Append(@, "SetWWWAuthenticate"),
               !.pc = IF rq.pc = "SendInvalidSchemeResponse"
                      THEN "InvalidSchemeResponse" ELSE "InvalidCredentialsResponse"]

\* h.ServeHTTP(w, r): a nil handler panics, any other writes its response.
ServeHTTPStep(h, rq) ==
    IF h = NilHandler
    THEN [rq EXCEPT !.pc = "panic"]
    ELSE [rq EXCEPT !.resp = h, !.calls = Append(@, h.name), !.pc = "done"]

\* SendInvalidSchemeResponse answering with the other rejection handler.
SchemeRejectionHandlerCrossed(a) == a.InvalidCredentialsResponse

\* The handler SendInvalidSchemeResponse invokes.
SchemeRejectionHandler(a) == a.InvalidSchemeResponse

\* SendInvalidCredentialsResponse answering an unknown username with the
\* invalid-scheme handler.
CredentialsRejectionHandlerByUser(a, rq) ==
    IF rq.username \in DOMAIN a.Users
    THEN a.InvalidCredentialsResponse ELSE a.InvalidSchemeResponse

\* The handler SendInvalidCredentialsResponse invokes for request rq.
CredentialsRejectionHandler(a, rq) == a.InvalidCredentialsResponse

\* One statement of the handler, for a request that has not ended.
Step(a, rq) ==
    CASE rq.pc = "BasicAuth" -> ExtractStep(rq)
      [] rq.pc = "Authenticator" -> AuthenticatorStep(a, rq)
      [] rq.pc \in {"SendInvalidSchemeResponse", "SendInvalidCredentialsResponse"} ->
            SetWWWAuthenticateStep(a, rq)
      [] rq.pc = "InvalidSchemeResponse" -> ServeHTTPStep(SchemeRejectionHandler(a), rq)
      [] rq.pc = "InvalidCredentialsResponse" ->
            ServeHTTPStep(CredentialsRejectionHandler(a, rq), rq)
      [] rq.pc = "Next" -> ServeHTTPStep(NextHandler, rq)

Ended(rq) == rq.pc \in {"done", "panic"}

\* The handler run from start to end on one request, alone.
RECURSIVE RunAlone(_, _)
RunAlone(a, rq) == IF Ended(rq) THEN rq ELSE RunAlone(a, Step(a, rq))

Handle(a, hdr) == RunAlone(a, NewRequest(hdr))

\* ------------------------------------------------------------------- actions
Init ==
    /\ call \in Calls
    /\ cfg = Construct(call)
    /\ req \in [Reqs -> {NewRequest(h) : h \in Headers}]

Extract(r) ==
    /\ req[r].pc = "BasicAuth"
    /\ req' = [req EXCEPT ![r] = ExtractStep(@)]
    /\ UNCHANGED <<call, cfg>>

Authenticator(r) ==
    /\ req[r].pc = "Authenticator"
    /\ req' = [req EXCEPT ![r] = AuthenticatorStep(cfg, @)]
    /\ UNCHANGED <<call, cfg>>

\* SetWWWAuthenticate keeping the formatted value in a.Realm.
SetWWWAuthenticateStoresRealm(r) ==
    /\ req[r].pc \in {"SendInvalidSchemeResponse", "SendInvalidCredentialsResponse"}
    /\ req' = [req EXCEPT ![r] = SetWWWAuthenticateStep(cfg, @)]
    /\ cfg' = [cfg EXCEPT !.Realm = WWWAuthenticate(cfg, @)]
    /\ UNCHANGED call

SetWWWAuthenticate(r) ==
    /\ req[r].pc \in {"SendInvalidSchemeResponse", "SendInvalidCredentialsResponse"}
    /\ req' = [req EXCEPT ![r] = SetWWWAuthenticateStep(cfg, @)]
    /\ UNCHANGED <<call, cfg>>

InvalidSchemeResponse(r) ==
    /\ req[r].pc = "InvalidSchemeResponse"
    /\ req' = [req EXCEPT ![r] = ServeHTTPStep(SchemeRejectionHandler(cfg), @)]
    /\ UNCHANGED <<call, cfg>>

InvalidCredentialsResponse(r) ==
    /\ req[r].pc = "InvalidCredentialsResponse"
    /\ req' = [req EXCEPT ![r] = ServeHTTPStep(CredentialsRejectionHandler(cfg, req[r]), @)]
    /\ UNCHANGED <<call, cfg>>

ServeNext(r) ==
    /\ req[r].pc = "Next"
    /\ req' = [req EXCEPT ![r] = ServeHTTPStep(NextHandler, @)]
    /\ UNCHANGED <<call, cfg>>

Next ==
    \E r \in Reqs :
        \/ Extract(r)
        \/ Authenticator(r)
        \/ SetWWWAuthenticate(r)
        \/ InvalidSchemeResponse(r)
        \/ InvalidCredentialsResponse(r)
        \/ ServeNext(r)

Spec == Init /\ [][Next]_vars

\* ---------------------------------------------------------------- properties
Called(rq, name) == \E i \in 1..Len(rq.calls) : rq.calls[i] = name

IsHandlerCall(name) == name \notin {"Authenticator", "SetWWWAuthenticate"}

\* The handlers a request has invoked, in order.
HandlerCalls(rq) == SelectSeq(rq.calls, IsHandlerCall)

\* (username, password) is an entry of the static users table.
Registered(users, username, password) ==
    username \in DOMAIN users /\ users[username] = password

UsesDefaultAuthenticator == cfg.Authenticator.kind = "default"

\* The request has passed the call of the authenticator.
Verified(rq) == rq.ok /\ rq.pc \notin {"BasicAuth", "Authenticator", "panic"}

\* The answer of each authenticator of the model to each pair of credentials.
AnswerOf ==
    [a \in {CustomAuthenticator} \cup {DefaultAuthenticatorOf(u) : u \in UserTables} |->
        [u \in Usernames |-> [p \in Passwords |-> AuthenticatorRun(a, u, p).result]]]

\* What the authenticator of the configuration answers for the credentials
\* the request's header carries.
Accepts(rq) ==
    /\ ParseBasicAuth(rq.hdr).ok
    /\ AnswerOf[cfg.Authenticator][rq.hdr.username][rq.hdr.password]

\* The result of handling each header alone, under the configuration each
\* constructor call returns.
AloneResult == [c \in Calls |-> [h \in Headers |-> Handle(Construct(c), h)]]

\* The states a request passes through when handled alone, from rq on.
RECURSIVE PathAlone(_, _)
PathAlone(a, rq) ==
    IF Ended(rq) THEN {rq} ELSE {rq} \cup PathAlone(a, Step(a, rq))

AlonePath == [c \in Calls |-> [h \in Headers |-> PathAlone(Construct(c), NewRequest(h))]]

\* C1: with the default authenticator, a request carrying a registered
\* (username, password) pair, the username differing from the password or
\* not, is authenticated and answered by the wrapped handler.
C1_RegisteredReachesNext ==
    \A r \in Reqs :
        (/\ UsesDefaultAuthenticator
         /\ req[r].hdr.kind = "basic"
         /\ Registered(cfg.Users, req[r].hdr.username, req[r].hdr.password)
         /\ Ended(req[r]))
            => (req[r].authenticated /\ req[r].resp = NextHandler)

\* C2: with the default authenticator, a request carrying a pair that is not
\* registered (unknown username, wrong password, swapped pair, empty table)
\* is not authenticated, goes down the invalid-credentials path and is
\* answered by the configured InvalidCredentialsResponse, never by next.
C2_UnregisteredRejected ==
    \A r \in Reqs :
        (/\ UsesDefaultAuthenticator
         /\ req[r].hdr.kind = "basic"
         /\ ~Registered(cfg.Users, req[r].hdr.username, req[r].hdr.password)
         /\ Verified(req[r]))
            => /\ ~req[r].authenticated
               /\ req[r].pc \in {"SendInvalidCredentialsResponse", "InvalidCredentialsResponse", "done"}
               /\ ~Called(req[r], "next")
               /\ req[r].pc = "done" => req[r].resp = cfg.InvalidCredentialsResponse

\* C2's case: a known username with a wrong password, and on the same table
\* the swapped pair, both answered by InvalidCredentialsResponse.
C2_Witness ==
    /\ UsesDefaultAuthenticator
    /\ \E r \in Reqs :
        /\ req[r].pc = "done"
        /\ req[r].hdr.username \in DOMAIN cfg.Users
        /\ req[r].hdr.password # cfg.Users[req[r].hdr.username]
        /\ req[r].resp = cfg.InvalidCredentialsResponse
    /\ \E r \in Reqs :
        /\ req[r].pc = "done"
        /\ Registered(cfg.Users, req[r].hdr.password, req[r].hdr.username)
        /\ req[r].hdr.password # req[r].hdr.username
        /\ req[r].resp = cfg.InvalidCredentialsResponse

\* C3: next is invoked if and only if credentials were extracted and the
\* authenticator returned true for them: it is never invoked before that, and
\* once the request has ended it has been invoked exactly in that case.
C3_NextIffAuthenticated ==
    \A r \in Reqs :
        /\ Called(req[r], "next") => (req[r].ok /\ req[r].authenticated /\ Accepts(req[r]))
        /\ req[r].pc \in {"SendInvalidSchemeResponse", "InvalidSchemeResponse",
                          "SendInvalidCredentialsResponse", "InvalidCredentialsResponse"}
              => ~Accepts(req[r])
        /\ Ended(req[r]) => (Called(req[r], "next") <=> Accepts(req[r]))

\* C3's cases together: one request answered by next, the other rejected.
C3_Witness ==
    /\ \E r \in Reqs : req[r].pc = "done" /\ Called(req[r], "next")
    /\ \E r \in Reqs : req[r].pc = "done" /\ ~Called(req[r], "next") /\ req[r].ok

\* C4: a request that has ended has invoked exactly one handler, once: the
\* configured InvalidSchemeResponse when no credentials were extracted, the
\* configured InvalidCredentialsResponse when the authenticator refused them,
\* next when it accepted them; no request invokes a second handler, and a
\* request that has not ended stands at a statement of the handler.
C4_ExactlyOneOutcome ==
    \A r \in Reqs :
        /\ Len(HandlerCalls(req[r])) <= 1
        /\ ~Ended(req[r]) =>
              req[r].pc \in {"BasicAuth", "Authenticator", "SendInvalidSchemeResponse",
                             "SendInvalidCredentialsResponse", "InvalidSchemeResponse",
                             "InvalidCredentialsResponse", "Next"}
        /\ Ended(req[r]) =>
              /\ req[r].pc = "done"
              /\ Len(HandlerCalls(req[r])) = 1
              /\ HandlerCalls(req[r])[1] = req[r].resp.name
              /\ req[r].resp =
                    IF ~ParseBasicAuth(req[r].hdr).ok THEN cfg.InvalidSchemeResponse
                    ELSE IF ~Accepts(req[r]) THEN cfg.InvalidCredentialsResponse
                    ELSE NextHandler

\* C4's case: the two rejection paths taken side by side, each answered by
\* its own handler.
C4_Witness ==
    \E r1 \in Reqs, r2 \in Reqs :
        /\ req[r1].pc = "done" /\ ~req[r1].ok
        /\ req[r2].pc = "done" /\ req[r2].ok /\ ~req[r2].authenticated
        /\ req[r1].resp = cfg.InvalidSchemeResponse
        /\ req[r2].resp = cfg.InvalidCredentialsResponse
        /\ req[r1].resp # req[r2].resp

\* C5: the response carries a WWW-Authenticate header exactly when the
\* request is on a rejection path past SetWWWAuthenticate and Realm and
\* Charset are both non-empty, and its value is then
\* Basic realm="<realm>", charset="<charset>".
C5_ChallengeHeader ==
    \A r \in Reqs :
        LET rq == req[r]
            rejected ==
                \/ rq.pc \in {"InvalidSchemeResponse", "InvalidCredentialsResponse"}
                \/ rq.pc = "done" /\ rq.resp # NextHandler
        IN  /\ rq.www # "" <=> (rejected /\ cfg.Realm # "" /\ cfg.Charset # "")
            /\ (rq.www # "" /\ cfg.Realm = "Test" /\ cfg.Charset = "UTF-8")
                  => rq.www = "Basic realm=\"Test\", charset=\"UTF-8\""

\* C5's cases: a rejected request with the header, and (second disjunct) a
\* rejected request without it because only one of Realm, Charset is set.
C5_Witness ==
    \E r \in Reqs :
        /\ req[r].pc = "done"
        /\ req[r].resp.status = StatusUnauthorized
        /\ req[r].www = "Basic realm=\"Test\", charset=\"UTF-8\""

\* C6: with the default authenticator, a rejected request with an unknown
\* username and a rejected request with a known username and a wrong
\* password get the same handler, InvalidCredentialsResponse, and the same
\* challenge header.
C6_NoUsernameOracle ==
    \A r1 \in Reqs, r2 \in Reqs :
        (/\ UsesDefaultAuthenticator
         /\ req[r1].pc = "done" /\ req[r2].pc = "done"
         /\ req[r1].ok /\ req[r2].ok
         /\ req[r1].hdr.username \notin DOMAIN cfg.Users
         /\ req[r2].hdr.username \in DOMAIN cfg.Users
         /\ req[r2].hdr.password # cfg.Users[req[r2].hdr.username])
            => /\ req[r1].resp = cfg.InvalidCredentialsResponse
               /\ req[r2].resp = req[r1].resp
               /\ req[r2].www = req[r1].www
               /\ HandlerCalls(req[r2]) = HandlerCalls(req[r1])

\* C6's case: both kinds of rejected request have ended, on a non-empty table.
C6_Witness ==
    \E r1 \in Reqs, r2 \in Reqs :
        /\ UsesDefaultAuthenticator
        /\ req[r1].pc = "done" /\ req[r2].pc = "done"
        /\ req[r1].ok /\ req[r2].ok
        /\ req[r1].hdr.username \notin DOMAIN cfg.Users
        /\ req[r2].hdr.username \in DOMAIN cfg.Users
        /\ req[r2].hdr.password # cfg.Users[req[r2].hdr.username]
        /\ req[r1].www # ""

\* The constructor call passes every sentinel to NewCustomBasicAuth.
AllSentinels ==
    /\ call.ctor = "NewCustomBasicAuth"
    /\ call.authenticator = NilAuthenticator
    /\ call.charset = ""
    /\ call.invalidCredentialsResponse = NilHandler
    /\ call.invalidSchemeResponse = NilHandler
    /\ call.realm = ""

\* C7: NewCustomBasicAuth called with every sentinel returns what
\* NewDefaultBasicAuth returns for the same users: the same Charset ("UTF-8")
\* and Realm, and the same outcome for every request.
C7_DefaultIsCustomWithSentinels ==
    AllSentinels =>
        LET d == NewDefaultBasicAuth(call.users)
        IN  /\ cfg.Charset = d.Charset
            /\ cfg.Realm = d.Realm
            /\ \A h \in Headers : Handle(cfg, h) = Handle(d, h)

\* C8: the configuration a constructor returns, whatever was nil or empty in
\* the call, has an Authenticator and both rejection handlers set; no request
\* handled with it panics on an unset one, and each ends answered by one of
\* InvalidSchemeResponse, InvalidCredentialsResponse and next.
C8_NeverUnset ==
    /\ cfg.Authenticator # NilAuthenticator
    /\ cfg.InvalidSchemeResponse # NilHandler
    /\ cfg.InvalidCredentialsResponse # NilHandler
    /\ \A r \in Reqs :
        /\ req[r].pc # "panic"
        /\ Ended(req[r]) =>
              req[r].resp \in {cfg.InvalidSchemeResponse, cfg.InvalidCredentialsResponse, NextHandler}

\* C8's case: every argument of NewCustomBasicAuth nil or empty, and both
\* rejection handlers have been invoked.
C8_Witness ==
    /\ AllSentinels
    /\ call.users = <<>>
    /\ \E r \in Reqs : req[r].pc = "done" /\ req[r].resp = DefaultInvalidSchemeResponse
    /\ \E r \in Reqs : req[r].pc = "done" /\ req[r].resp = DefaultInvalidCredentialsResponse

\* C9: handling requests never changes the configuration: it stays the one the
\* constructor returned; and at every point of every interleaving a request
\* is in a state it passes through when handled alone, and once ended has
\* exactly the result it gets when handled alone.
C9_ConfigurationReadOnly ==
    /\ cfg = Construct(call)
    /\ \A r \in Reqs :
        /\ req[r] \in AlonePath[call][req[r].hdr]
        /\ Ended(req[r]) => req[r] = AloneResult[call][req[r].hdr]

\* C9's case: the two requests are both between SetWWWAuthenticate and their
\* rejection handler, on different paths, with a challenge header to send.
C9_Witness ==
    /\ req["r1"].pc = "InvalidSchemeResponse"
    /\ req["r2"].pc = "InvalidCredentialsResponse"
    /\ req["r1"].www # ""
    /\ req["r2"].www # ""

\* C10: every run of CompareInputs hands two digests of Size bytes to the
\* comparison, whatever the lengths of its inputs; the comparison takes Size
\* operations, wherever the digests first differ; and the result is true
\* exactly when the two digests are equal.
C10_CompareInputsConstantTime ==
    \A r \in Reqs : \A i \in 1..Len(req[r].cmps) :
        LET c == req[r].cmps[i]
        IN  /\ c.lens = <<Size, Size>>
            /\ c.ops = Size
            /\ c.result <=> (Sum256(c.input) = Sum256(c.expected))

\* C10's cases: two comparisons whose digests first differ at different
\* bytes have run, one on inputs of different lengths (the digests differ at
\* their first byte), one on inputs of one length (they differ later).
C10_Witness ==
    /\ \E r \in Reqs : \E i \in 1..Len(req[r].cmps) :
          /\ Len(req[r].cmps[i].input) # Len(req[r].cmps[i].expected)
          /\ Sum256(req[r].cmps[i].input)[1] # Sum256(req[r].cmps[i].expected)[1]
          /\ ~req[r].cmps[i].result
    /\ \E r \in Reqs : \E i \in 1..Len(req[r].cmps) :
          /\ Len(req[r].cmps[i].input) = Len(req[r].cmps[i].expected)
          /\ Sum256(req[r].cmps[i].input)[1] = Sum256(req[r].cmps[i].expected)[1]
          /\ req[r].cmps[i].input # req[r].cmps[i].expected
          /\ ~req[r].cmps[i].result

\* C11: with the default authenticator, for a username found in the static
\* table the username comparison never fails, and the request is
\* authenticated exactly when the supplied password equals the password
\* stored for that username.
C11_PasswordAloneDecides ==
    \A r \in Reqs :
        (/\ UsesDefaultAuthenticator
         /\ req[r].ok
         /\ req[r].username \in DOMAIN cfg.Users
         /\ Verified(req[r]))
            => /\ Len(req[r].cmps) = 2
               /\ req[r].cmps[1].result
               /\ req[r].authenticated <=> (req[r].password = cfg.Users[req[r].username])

\* The name is that of one of the two configured rejection handlers.
IsRejectionHandler(name) ==
    name \in {cfg.InvalidSchemeResponse.name, cfg.InvalidCredentialsResponse.name}

\* C12: on each rejection path SetWWWAuthenticate is called before the
\* rejection handler and never after it: when the handler is about to be
\* invoked the last call made is SetWWWAuthenticate and the response already
\* carries the header it ends with; once the handler has run, the call just
\* before it is SetWWWAuthenticate, it is the last call, and the header has
\* not changed since.
C12_ChallengeBeforeHandler ==
    \A r \in Reqs :
        LET rq == req[r]
            n == Len(rq.calls)
        IN  /\ rq.pc \in {"InvalidSchemeResponse", "InvalidCredentialsResponse"} =>
                  /\ n >= 1
                  /\ rq.calls[n] = "SetWWWAuthenticate"
                  /\ \A i \in 1..n : ~IsRejectionHandler(rq.calls[i])
                  /\ rq.www = AloneResult[call][rq.hdr].www
            /\ (rq.pc = "done" /\ rq.resp # NextHandler) =>
                  /\ n >= 2
                  /\ IsRejectionHandler(rq.calls[n])
                  /\ rq.calls[n - 1] = "SetWWWAuthenticate"
                  /\ \A i \in 1..(n - 1) : ~IsRejectionHandler(rq.calls[i])
                  /\ rq.www = WWWAuthenticate(cfg, "")
            /\ \A i \in 1..n : \A j \in 1..n :
                  (IsRejectionHandler(rq.calls[i]) /\ rq.calls[j] = "SetWWWAuthenticate") => j < i

\* C12's case: both rejection handlers have run after SetWWWAuthenticate set
\* a challenge header.
C12_Witness ==
    \E r1 \in Reqs, r2 \in Reqs :
        /\ req[r1].pc = "done" /\ req[r1].resp = cfg.InvalidSchemeResponse
        /\ req[r2].pc = "done" /\ req[r2].resp = cfg.InvalidCredentialsResponse
        /\ req[r1].www # "" /\ req[r2].www # ""
        /\ req[r1].calls = <<"SetWWWAuthenticate", cfg.InvalidSchemeResponse.name>>
        /\ req[r2].calls =
              <<"Authenticator", "SetWWWAuthenticate", cfg.InvalidCredentialsResponse.name>>

IsAuthenticatorCall(name) == name = "Authenticator"

\* The calls of the authenticator a request has made, in order.
AuthenticatorCalls(rq) == SelectSeq(rq.calls, IsAuthenticatorCall)

\* C13: per request the authenticator, default or caller-supplied, is called
\* exactly once, with the extracted username and password, when the header
\* carries credentials, and never when it is absent or malformed; what
\* follows the call depends only on the boolean it returned, and a rejection
\* is reported by one handler invocation, with no second call.
C13_AuthenticatorCalledOnce ==
    /\ \A r \in Reqs :
        LET rq == req[r]
            n == Len(AuthenticatorCalls(rq))
        IN  /\ n = Len(rq.args)
            /\ n <= 1
            /\ Len(HandlerCalls(rq)) <= 1
            /\ ~ParseBasicAuth(rq.hdr).ok => n = 0
            /\ rq.pc \in {"BasicAuth", "Authenticator"} => n = 0
            /\ Verified(rq) =>
                /\ rq.args = << <<rq.hdr.username, rq.hdr.password>> >>
                /\ rq.authenticated => rq.pc \in {"Next", "done"}
                /\ ~rq.authenticated =>
                      rq.pc \in {"SendInvalidCredentialsResponse",
                                 "InvalidCredentialsResponse", "done"}
                /\ rq.pc = "done" =>
                      /\ rq.calls[1] = "Authenticator"
                      /\ HandlerCalls(rq) = << rq.resp.name >>
                      /\ rq.resp = IF rq.authenticated
                                   THEN NextHandler ELSE cfg.InvalidCredentialsResponse
    /\ \A r1, r2 \in Reqs :
        (/\ Verified(req[r1]) /\ Verified(req[r2])
         /\ req[r1].pc = "done" /\ req[r2].pc = "done"
         /\ req[r1].authenticated = req[r2].authenticated)
            => /\ req[r1].resp = req[r2].resp
               /\ req[r1].calls = req[r2].calls
               /\ req[r1].www = req[r2].www

\* C13's case: under a caller-supplied authenticator, one request accepted
\* and one refused, each after a single call with its own credentials, and
\* the refusal reported by a single handler invocation.
C13_Witness ==
    /\ cfg.Authenticator = CustomAuthenticator
    /\ \E r1, r2 \in Reqs :
        /\ req[r1].pc = "done" /\ req[r2].pc = "done"
        /\ req[r1].authenticated /\ req[r1].resp = NextHandler
        /\ req[r1].args = << <<req[r1].hdr.username, req[r1].hdr.password>> >>
        /\ req[r2].hdr.kind = "basic" /\ ~req[r2].authenticated
        /\ req[r2].args = << <<req[r2].hdr.username, req[r2].hdr.password>> >>
        /\ req[r2].calls =
              <<"Authenticator", "SetWWWAuthenticate", cfg.InvalidCredentialsResponse.name>>

\* C14: on the example's /complex route a request whose Authorization header
\* is missing or malformed is answered by the handler sending "Invalid
\* authentication scheme!" with code "BAUTH: E0001", and a request with
\* well-formed but refused credentials by the handler sending "Invalid
\* username and/or password!" with code "BAUTH: E0002".
C14_ComplexRouteHandlers ==
    call = ExampleComplexCall =>
        \A r \in Reqs :
            req[r].pc = "done" =>
                /\ ~ParseBasicAuth(req[r].hdr).ok =>
                      /\ req[r].resp.msg = "Invalid authentication scheme!"
                      /\ req[r].resp.code = "BAUTH: E0001"
                /\ (ParseBasicAuth(req[r].hdr).ok /\ ~req[r].authenticated) =>
                      /\ req[r].resp.msg = "Invalid username and/or password!"
                      /\ req[r].resp.code = "BAUTH: E0002"

=============================================================================
